---- MODULE Spec2Model ----
(***************************************************************************)
(* Ambient-AI: session lifecycle, memory consolidation under the synthesis *)
(* lock, the durable memory documents and the autonomy cycle.              *)
(*                                                                         *)
(* Time is wall-clock UTC in minutes.  One step of the model is one run of *)
(* a coroutine between two awaits: asyncio runs a task without preemption  *)
(* until it awaits something that is not ready.                            *)
(***************************************************************************)
EXTENDS Integers, Sequences, FiniteSets, TLC

(* ------------------------------ bounds -------------------------------- *)
\* text messages one user sends in one run
MaxMsgs == 2
\* clock advances in one run
MaxTicks == 1
\* largest configured synthesis_message_threshold explored
MaxThreshold == 3
\* autonomy cycles started in one run
MaxCycles == 1
\* text messages a user sends in a run that also starts autonomy cycles
MaxMsgsBesideCycles == 2
\* /forget commands one user sends in one run
MaxForgets == 1
MaxStrangerMsgs == 2
MaxStrangerForgets == 1
\* entries in the "updates" map of one synthesis response
MaxUpdates == 2
\* minutes the clock advances by in one step
TickMinutes == 60
\* autonomy cycles, and messages beside them, in the runs about outreach
MaxOutreachCycles == 2
MaxOutreachMsgs == 1

(* --------------------------- configuration ---------------------------- *)
session_timeout_minutes == 30
quiet_hours_start == 23
quiet_hours_end == 8
proactive_cooldown_hours == 2
max_proactive_messages_per_day == 3
allowed_user_ids == <<1, 2>>

\* user ids that send updates; 3 is not in allowed_user_ids
Users == {1, 2, 3}
\* the clock value at start-up: 22:00 UTC of day 0
StartTimes == {22 * 60}
\* "no value yet" for the Optional timestamps and dates
None == 0 - 1

(* ------------------------- memory documents --------------------------- *)
MEMORY_FILES == <<"identity.md", "user_context.md", "conversation_summary.md",
                  "active_threads.md", "queue.md">>

Range(s) == {s[i] : i \in DOMAIN s}

FileNames == Range(MEMORY_FILES)

\* a path of the memory directory that holds no file
Absent == "<absent>"

\* the template MEMORY_FILES maps every file name to
Template(filename) == "template"

\* _atomic_write: the temp file is written and renamed over the path, or the
\* write raises and the path keeps its content
_atomic_write(d, path, content, fails) ==
    IF fails THEN [docs |-> d, raised |-> "OSError"]
    ELSE [docs |-> [d EXCEPT ![path] = content], raised |-> "none"]

RECURSIVE SeedFrom(_, _)
SeedFrom(d, names) ==
    IF names = <<>> THEN d
    ELSE LET filename == Head(names)
         IN SeedFrom(IF d[filename] = Absent
                        THEN _atomic_write(d, filename, Template(filename), FALSE).docs
                        ELSE d,
                     Tail(names))

\* MemoryManager._seed_files: every absent file gets its template
_seed_files(d) == SeedFrom(d, MEMORY_FILES)

\* MemoryManager._read_file: "" for a missing file
_read_file(d, filename) == IF d[filename] = Absent THEN "" ELSE d[filename]

RECURSIVE JoinNonEmpty(_, _)
JoinNonEmpty(d, names) ==
    IF names = <<>> THEN <<>>
    ELSE LET content == _read_file(d, Head(names))
         IN (IF content # "" THEN <<content>> ELSE <<>>) \o JoinNonEmpty(d, Tail(names))

\* the sections load_full_context joins, in MEMORY_FILES order
load_full_context(d) == JoinNonEmpty(d, MEMORY_FILES)

\* the sections load_lightweight_context joins
load_lightweight_context(d) ==
    JoinNonEmpty(d, <<"identity.md", "active_threads.md", "queue.md">>)

\* MemoryManager.update_file
update_file(d, filename, content, fails) ==
    IF filename \notin FileNames THEN [docs |-> d, raised |-> "ValueError"]
    ELSE _atomic_write(d, filename, content, fails)

(* ------------------------------ sessions ------------------------------ *)
\* Session.__init__
Session(t) == [messages |-> <<>>, last_activity |-> t, message_count |-> 0]

\* Session.add_message
add_message(s, role, content, t) ==
    [messages |-> Append(s.messages, [role |-> role, content |-> content]),
     last_activity |-> t,
     message_count |-> s.message_count + 1]

\* Session.is_expired: elapsed seconds against timeout_minutes * 60
is_expired(s, t, timeout_minutes) ==
    (t - s.last_activity) * 60 > timeout_minutes * 60

\* Session.get_conversation_text: one labelled line per turn
get_conversation_text(s) ==
    [i \in DOMAIN s.messages |->
        <<IF s.messages[i].role = "user" THEN "User" ELSE "Claude",
          s.messages[i].content>>]

\* a clear that resets the counter and the clock and keeps the turns
clearKeepsTurns(s, t) ==
    [messages |-> s.messages, last_activity |-> t, message_count |-> 0]

\* Session.clear
clear(s, t) == [messages |-> <<>>, last_activity |-> t, message_count |-> 0]

\* an authorization test that lets every user id in
_is_authorized_anyone(u) == TRUE

\* AmbientBot._is_authorized
_is_authorized(u) ==
    IF allowed_user_ids = <<>> THEN TRUE ELSE u \in Range(allowed_user_ids)

\* AmbientBot._get_session
_get_session(ss, u, t) == IF u \in DOMAIN ss THEN ss ELSE ss @@ (u :> Session(t))

(* ------------------------ model responses ----------------------------- *)
\* A response text is a sequence of tokens: the two fence markers (three
\* backquotes, written ~~~ here, with and without the json tag), a JSON
\* object ("obj", whose "updates" member the response record carries), a JSON
\* array ("arr"), prose ("junk") and white space (" ").
IsFence(tok) == tok \in {"~~~json", "~~~"}

\* text.split(sep)[1] for a text that contains sep: what follows its first
\* occurrence (up to the next one, where the split at the plain fence that
\* follows cuts anyway: the json fence starts with the plain fence)
RECURSIVE AfterFirst(_, _)
AfterFirst(text, sep) ==
    IF text = <<>> THEN <<>>
    ELSE IF Head(text) = sep THEN Tail(text)
    ELSE AfterFirst(Tail(text), sep)

\* text.split(fence)[0]: what precedes the first fence marker
RECURSIVE BeforeFence(_)
BeforeFence(text) ==
    IF text = <<>> THEN <<>>
    ELSE IF IsFence(Head(text)) THEN <<>>
    ELSE <<Head(text)>> \o BeforeFence(Tail(text))

\* the fenced-block extraction of ClaudeClient.synthesize and .think
ExtractFenced(text) ==
    IF "~~~json" \in Range(text) THEN BeforeFence(AfterFirst(text, "~~~json"))
    ELSE IF "~~~" \in Range(text) THEN BeforeFence(AfterFirst(text, "~~~"))
    ELSE text

RECURSIVE LStrip(_)
LStrip(text) ==
    IF text # <<>> /\ Head(text) = " " THEN LStrip(Tail(text)) ELSE text

RECURSIVE RStrip(_)
RStrip(text) ==
    IF text # <<>> /\ text[Len(text)] = " "
    THEN RStrip(SubSeq(text, 1, Len(text) - 1)) ELSE text

\* str.strip
Strip(text) == LStrip(RStrip(text))

\* json.loads: the kind of value, or JSONDecodeError
json_loads(text) ==
    IF text = <<"obj">> THEN "object"
    ELSE IF text = <<"arr">> THEN "array"
    ELSE "JSONDecodeError"

\* ClaudeClient.synthesize after the completion call returned resp: the
\* updates it returns, or the exception it lets through
synthesize(resp) ==
    LET parsed == json_loads(Strip(ExtractFenced(resp.text)))
    IN IF parsed = "JSONDecodeError"
       THEN [raised |-> "none", parsed |-> parsed, updates |-> <<>>]
       ELSE IF parsed = "array"
       THEN [raised |-> "AttributeError", parsed |-> parsed, updates |-> <<>>]
       ELSE [raised |-> "none", parsed |-> parsed, updates |-> resp.updates]

\* a loop that writes every name the model gives
ShouldWriteAny(filename) == TRUE

\* the filename test of the loop of _maybe_synthesize
ShouldWrite(filename) == filename # "identity.md"

\* _maybe_synthesize's loop over updates.items(): an exception ends the loop
RECURSIVE WriteUpdates(_, _, _, _)
WriteUpdates(d, updates, applied, ioFails) ==
    IF updates = <<>> THEN [docs |-> d, applied |-> applied, raised |-> "none"]
    ELSE LET filename == Head(updates)[1]
             content == Head(updates)[2]
         IN IF ShouldWrite(filename)
            THEN LET w == update_file(d, filename, content, ioFails /\ applied = <<>>)
                 IN IF w.raised # "none"
                    THEN [docs |-> d, applied |-> applied, raised |-> w.raised]
                    ELSE WriteUpdates(w.docs, Tail(updates),
                                      Append(applied, filename), ioFails)
            ELSE WriteUpdates(d, Tail(updates), applied, ioFails)

\* an except clause that names the exceptions of the write alone
SynthesisCatchesWriteErrors(raised) == raised \in {"ValueError", "OSError"}

\* the except clause of _maybe_synthesize: any Exception
SynthesisCatches(raised) ==
    raised \in {"APIError", "AttributeError", "ValueError", "OSError"}

\* the body of _maybe_synthesize from the return of the completion call on
SynthesisBody(d, resp, ioFails) ==
    LET s == IF resp.api = "error"
             THEN [raised |-> "APIError", parsed |-> "n/a", updates |-> <<>>]
             ELSE synthesize(resp)
        w == IF s.raised # "none"
             THEN [docs |-> d, applied |-> <<>>, raised |-> s.raised]
             ELSE WriteUpdates(d, s.updates, <<>>, ioFails)
    IN [docs |-> w.docs, applied |-> w.applied, raised |-> w.raised,
        parsed |-> s.parsed, updates |-> s.updates,
        escaped |-> (w.raised # "none" /\ ~SynthesisCatches(w.raised))]

\* ---- the responses explored ----
SynthTexts ==
    {<<"obj">>, <<"~~~json", "obj", "~~~">>, <<"~~~", " ", "obj", " ", "~~~">>,
     <<"junk", "~~~json", "obj", "~~~", "junk">>,
     <<"junk">>, <<"obj", "junk">>, <<"~~~json", "junk", "~~~">>, <<"arr">>}

\* names a synthesis response may give; notes.md is not a memory file
RespNames == {"identity.md", "queue.md", "notes.md"}
SynthContents == {"m1"}

RECURSIVE NameSeqs(_)
NameSeqs(n) ==
    IF n = 0 THEN {<<>>}
    ELSE LET shorter == NameSeqs(n - 1)
         IN shorter \cup {Append(s, x) : s \in {q \in shorter : Len(q) = n - 1},
                                          x \in RespNames}

\* the "updates" maps: distinct keys, in the order the JSON text gives them
UpdateMaps ==
    {[i \in DOMAIN s |-> <<s[i], c>>] :
        s \in {q \in NameSeqs(MaxUpdates) :
                  \A i, j \in DOMAIN q : i # j => q[i] # q[j]},
        c \in SynthContents}

\* the completion call fails; or its text is any of SynthTexts around an
\* object that updates queue.md; or it is a bare object with any updates map
SynthResponses ==
    {[api |-> "error", text |-> <<>>, updates |-> <<>>]}
    \cup {[api |-> "ok", text |-> t, updates |-> <<(<<"queue.md", c>>)>>] :
             t \in SynthTexts, c \in SynthContents}
    \cup {[api |-> "ok", text |-> <<"obj">>, updates |-> m] : m \in UpdateMaps}

\* the three kinds of outcome, one response of each: the call fails, the text
\* does not parse, the text is an object that names identity.md and queue.md
OutcomeResponses ==
    {[api |-> "error", text |-> <<>>, updates |-> <<>>],
     [api |-> "ok", text |-> <<"junk">>, updates |-> <<>>],
     [api |-> "ok", text |-> <<"obj">>,
      updates |-> <<(<<"identity.md", "m1">>), (<<"queue.md", "m1">>)>>]}

(* ------------------------------- state -------------------------------- *)
VARIABLES
    now,                \* datetime.now(timezone.utc), in minutes
    ticks,              \* clock advances so far
    threshold,          \* config.synthesis_message_threshold
    budget,             \* what is left of the run: messages per user, cycles
    docs,               \* the memory directory: file name -> content
    seededIdentity,     \* history: identity.md as MemoryManager.__init__ left it
    journal,            \* the journal directory: day -> blocks of that day's file
    sessions,           \* AmbientBot.sessions: user id -> Session
    hpc,                \* per user: where the update being handled stands
    htext,              \* per user: the text of the update being handled
    hchunks,            \* per user: reply chunks not yet confirmed sent
    nMsgs,              \* text updates of authorized users so far
    locked,             \* _synthesis_lock._locked
    waiters,            \* _synthesis_lock._waiters, in arrival order
    running,            \* consolidations between load_full_context and the writes
    spawned,            \* tasks made by create_task that have not run yet
    synthLog,           \* history: what the consolidation that just ended did
    aLog,               \* history: what the autonomy cycle did in the last step
    apc,                \* where the autonomy cycle stands
    aChunks,            \* chunks of the composed proactive message
    aIdx,               \* index in allowed_user_ids of the recipient being sent to
    aLeft,              \* chunks not yet confirmed sent to that recipient
    last_message_time,  \* AmbientBot.last_message_time
    proactive_messages_today,
    proactive_messages_date,
    disk,               \* the memory directory, file by file, as _atomic_write steps see it
    tmpFiles,           \* the files mkstemp has created, in order of creation
    wpc,                \* where the document write under way stands
    wr,                 \* the document write under way, or the last one
    seen,               \* history: what the last read of a document returned
    wbudget,            \* what is left of the run: document writes, kills
    files,              \* the memory directory, character by character
    lastWrite,          \* history: the last update_file call, and the directory before it
    lastRead,           \* history: the last _read_file call and what it returned
    smText,             \* the text split_message is called with
    smChunks            \* what split_message returned for it

sessionVars == <<sessions, hpc, htext, hchunks, nMsgs>>
lockVars == <<locked, waiters, running, spawned>>
autoVars == <<apc, aChunks, aIdx, aLeft>>
outreachVars == <<last_message_time, proactive_messages_today, proactive_messages_date>>
callVars == <<files, lastWrite, lastRead, smText, smChunks>>
writeVars == <<disk, tmpFiles, wpc, wr, seen, wbudget, callVars>>
programVars == <<now, ticks, threshold, budget, docs, seededIdentity, journal, sessionVars,
                 lockVars, synthLog, aLog, autoVars, outreachVars>>
vars == <<programVars, writeVars>>

(* ------------------- files, at the level of _atomic_write -------------- *)
\* write() calls it takes to put one document into its file
BlocksPerWrite == 2

\* documents written step by step
WrittenFiles == {"queue.md", "user_context.md"}

\* texts update_file is called with
NewTexts == {"q1", "q2"}

\* a path that holds no file; a file holding all of text c; a file that
\* holds the first k blocks of c
NoFile == [exists |-> FALSE, text |-> "", written |-> 0]
Whole(c) == [exists |-> TRUE, text |-> c, written |-> BlocksPerWrite]
Partial(c, k) == [exists |-> TRUE, text |-> IF k = 0 THEN "" ELSE c, written |-> k]
IsWhole(f) == f.exists /\ f.written = BlocksPerWrite

NoWrite == [path |-> "", content |-> "", tmp |-> 0, pre |-> NoFile]

\* the memory directory once _seed_files has run, and no write under way
InitDisk(writes, kills) ==
    /\ disk = [f \in WrittenFiles |-> Whole(Template(f))]
    /\ tmpFiles = <<>>
    /\ wpc = "idle"
    /\ wr = NoWrite
    /\ seen = Whole(Template("queue.md"))
    /\ wbudget = [writes |-> writes, kills |-> kills]

\* the memory directory before start-up: empty, or holding an identity.md a
\* person wrote
FreshDisk == [n \in FileNames |-> Absent]
CustomDisk == [n \in FileNames |-> IF n = "identity.md" THEN "custom" ELSE Absent]

\* no update_file, _read_file or split_message call followed on its own
NoCalls ==
    /\ files = <<>>
    /\ lastWrite = <<>>
    /\ lastRead = <<>>
    /\ smText = <<>>
    /\ smChunks = <<>>

InitWriting(writes, kills) == InitDisk(writes, kills) /\ NoCalls

\* the runs explored. One user, under every threshold, with /forget:
SessionRuns ==
    {[threshold |-> T, disk |-> FreshDisk, cycles |-> 0,
      msgs |-> (1 :> 0) @@ (2 :> MaxMsgs) @@ (3 :> 0),
      forgets |-> (1 :> 0) @@ (2 :> MaxForgets) @@ (3 :> 0)] : T \in 1..MaxThreshold}

\* two users whose consolidations contend for the lock:
TwoUserRuns ==
    {[threshold |-> 1, disk |-> FreshDisk, cycles |-> 0,
      msgs |-> (1 :> 1) @@ (2 :> MaxMsgs) @@ (3 :> 0),
      forgets |-> (1 :> 0) @@ (2 :> 0) @@ (3 :> 0)]}

\* one user beside the autonomy cycle, over an identity.md a person wrote:
AutonomyRuns ==
    {[threshold |-> 1, disk |-> CustomDisk, cycles |-> MaxCycles,
      msgs |-> (1 :> MaxMsgsBesideCycles) @@ (2 :> 0) @@ (3 :> 0),
      forgets |-> (1 :> 0) @@ (2 :> 0) @@ (3 :> 0)]}

\* one user in the list beside a user outside it who sends text and /forget:
StrangerRuns ==
    {[threshold |-> 1, disk |-> FreshDisk, cycles |-> 0,
      msgs |-> (1 :> 0) @@ (2 :> MaxMsgs) @@ (3 :> MaxStrangerMsgs),
      forgets |-> (1 :> 0) @@ (2 :> 0) @@ (3 :> MaxStrangerForgets)]}

Runs == SessionRuns \cup TwoUserRuns \cup AutonomyRuns

NoLog ==
    [task |-> <<"none", 0, 0>>, before |-> <<>>, applied |-> <<>>,
     raised |-> "none", parsed |-> "n/a", updates |-> <<>>, escaped |-> FALSE]

NoDecision == [should_message |-> FALSE, journal_entry |-> FALSE, queue_updates |-> FALSE]

NoALog ==
    [step |-> "none", raised |-> "none", thought |-> FALSE, decision |-> NoDecision,
     gate |-> "n/a", recipient |-> 0, ok |-> FALSE, after |-> "none"]

\* the state once lifespan() has built MemoryManager, AmbientBot and
\* AutonomyLoop
InitProgram(runs) ==
    /\ now \in StartTimes
    /\ ticks = 0
    /\ \E run \in runs :
          /\ threshold = run.threshold
          /\ budget = [msgs |-> run.msgs, forgets |-> run.forgets,
                       cycles |-> run.cycles]
          /\ docs = _seed_files(run.disk)
          /\ seededIdentity = _seed_files(run.disk)["identity.md"]
    /\ journal = <<>>
    /\ sessions = <<>>
    /\ hpc = [u \in Users |-> "idle"]
    /\ htext = [u \in Users |-> 0]
    /\ hchunks = [u \in Users |-> 0]
    /\ nMsgs = 0
    /\ locked = FALSE
    /\ waiters = <<>>
    /\ running = <<>>
    /\ spawned = <<>>
    /\ synthLog = NoLog
    /\ aLog = NoALog
    /\ apc = "idle"
    /\ aChunks = 0
    /\ aIdx = 0
    /\ aLeft = 0
    /\ last_message_time = None
    /\ proactive_messages_today = 0
    /\ proactive_messages_date = None

\* the same, with no document write followed step by step
InitIn(runs) == InitProgram(runs) /\ InitWriting(0, 0)

Init == InitIn(Runs)

(* ------------------------- the synthesis lock ------------------------- *)
\* an acquire that never waits
CanAcquireAlways(lk, ws) == TRUE

\* asyncio.Lock.acquire returns at once iff the lock is free and nobody is
\* queued for it; otherwise the caller joins the queue
CanAcquire(lk, ws) == ~lk /\ ws = <<>>

\* a release on the normal path alone
LockAfterExitNormalOnly(raised) == raised # "none"

\* async with self._synthesis_lock: whatever the body raised, leaving the
\* block releases the lock
LockAfterExit(raised) == FALSE

\* what _maybe_synthesize holds while it awaits claude.synthesize
CSRecord(task, ss, d) ==
    [task |-> task,
     ctx |-> load_full_context(d),
     text |-> get_conversation_text(ss[task[2]]),
     dirty |-> {}]

\* _maybe_synthesize up to its await: enter the lock and start the model call,
\* or queue for the lock
Acquire(task, ss) ==
    IF CanAcquire(locked, waiters)
    THEN /\ locked' = TRUE
         /\ running' = Append(running, CSRecord(task, ss, docs))
         /\ waiters' = waiters
    ELSE /\ waiters' = Append(waiters, task)
         /\ UNCHANGED <<locked, running>>

RemoveAt(s, i) == SubSeq(s, 1, i - 1) \o SubSeq(s, i + 1, Len(s))

\* history: the names written under a running consolidation by someone else
MarkDirty(run, names) == [k \in DOMAIN run |-> [run[k] EXCEPT !.dirty = @ \cup names]]

\* release() woke the first waiter; it now takes the lock and runs up to its
\* model call
ResumeWaiter ==
    /\ ~locked
    /\ waiters # <<>>
    /\ locked' = TRUE
    /\ waiters' = Tail(waiters)
    /\ running' = Append(running, CSRecord(Head(waiters), sessions, docs))
    /\ synthLog' = NoLog
    /\ aLog' = NoALog
    /\ UNCHANGED <<now, ticks, threshold, writeVars, budget, docs, seededIdentity, journal,
                   sessionVars, spawned, autoVars, outreachVars>>

\* a task made by create_task gets its first run
StartDetached ==
    /\ spawned # <<>>
    /\ Acquire(Head(spawned), sessions)
    /\ spawned' = Tail(spawned)
    /\ synthLog' = NoLog
    /\ aLog' = NoALog
    /\ UNCHANGED <<now, ticks, threshold, writeVars, budget, docs, seededIdentity, journal,
                   sessionVars, autoVars, outreachVars>>

(* ------------------------ inbound text messages ----------------------- *)
\* _handle_message from session.add_message("user", ...) to the await of
\* claude.chat
BeginChat(ss, u, m) ==
    /\ sessions' = [ss EXCEPT ![u] = add_message(@, "user", <<"text", m>>, now)]
    /\ hpc' = [hpc EXCEPT ![u] = "chat_await"]

\* a test that is off by one
ThresholdReachedEarly(count, thr) == count >= thr - 1

\* the threshold test of _handle_message
ThresholdReached(count, thr) == count >= thr

\* a trigger that wipes the turns along with the counter
ResetCountAndTurns(s) == [s EXCEPT !.message_count = 0, !.messages = <<>>]

\* a trigger that leaves the counter alone
ResetCountMissing(s) == s

\* session.message_count = 0 after create_task
ResetCount(s) == [s EXCEPT !.message_count = 0]

\* a text update arrives: _handle_message up to its first await
HandleMessage(u) ==
    /\ hpc[u] = "idle"
    /\ budget.msgs[u] > 0
    /\ IF ~_is_authorized(u)
       THEN /\ budget' = [budget EXCEPT !.msgs[u] = @ - 1]
            /\ UNCHANGED <<now, ticks, threshold, writeVars, docs, seededIdentity, journal,
                           sessionVars, lockVars, synthLog, aLog, autoVars, outreachVars>>
       ELSE /\ budget' = [budget EXCEPT !.msgs[u] = @ - 1]
            /\ nMsgs' = nMsgs + 1
            /\ htext' = [htext EXCEPT ![u] = nMsgs + 1]
            /\ synthLog' = NoLog
            /\ aLog' = NoALog
            /\ LET ss == _get_session(sessions, u, now)
               IN IF ss[u].messages # <<>>
                     /\ is_expired(ss[u], now, session_timeout_minutes)
                  THEN /\ Acquire(<<"awaited", u, nMsgs + 1>>, ss)
                       /\ sessions' = ss
                       /\ hpc' = [hpc EXCEPT ![u] = "synthesizing"]
                  ELSE /\ BeginChat(ss, u, nMsgs + 1)
                       /\ UNCHANGED <<locked, waiters, running>>
            /\ UNCHANGED <<now, ticks, threshold, writeVars, docs, seededIdentity, journal,
                           hchunks, spawned, autoVars, outreachVars>>

\* claude.synthesize returns or raises for the consolidation running[i]:
\* _maybe_synthesize to its end, and for the awaited one _handle_message on to
\* the await of claude.chat
SynthReturn(i, resp, ioFails) ==
    /\ i \in DOMAIN running
    /\ LET r == running[i]
           u == r.task[2]
           out == SynthesisBody(docs, resp, ioFails)
       IN /\ docs' = out.docs
          /\ running' = MarkDirty(RemoveAt(running, i), Range(out.applied))
          /\ locked' = LockAfterExit(out.raised)
          /\ aLog' = NoALog
          /\ synthLog' = [task |-> r.task, before |-> docs, applied |-> out.applied,
                          raised |-> out.raised, parsed |-> out.parsed,
                          updates |-> out.updates, escaped |-> out.escaped]
          /\ IF r.task[1] = "awaited"
             THEN IF out.escaped
                  THEN /\ hpc' = [hpc EXCEPT ![u] = "idle"]
                       /\ UNCHANGED sessions
                  ELSE BeginChat([sessions EXCEPT ![u] = clear(@, now)], u, htext[u])
             ELSE UNCHANGED <<sessions, hpc>>
    /\ UNCHANGED <<now, ticks, threshold, writeVars, budget, seededIdentity, journal, htext, hchunks,
                   nMsgs, waiters, spawned, autoVars, outreachVars>>

\* what claude.chat may do: a reply that split_message cuts in one or two
\* chunks, or an exception, which the one-chunk apology text stands in for
ChatResults == {[ok |-> TRUE, chunks |-> 1], [ok |-> TRUE, chunks |-> 2],
                [ok |-> FALSE, chunks |-> 0]}

\* claude.chat returns or raises: _handle_message to the await of the first
\* reply_text
ChatReturn(u, res) ==
    /\ hpc[u] = "chat_await"
    /\ sessions' = [sessions EXCEPT
                        ![u] = add_message(@, "assistant", <<"response", htext[u]>>, now)]
    /\ hchunks' = [hchunks EXCEPT ![u] = IF res.ok THEN res.chunks ELSE 1]
    /\ last_message_time' = now
    /\ hpc' = [hpc EXCEPT ![u] = "send"]
    /\ synthLog' = NoLog
    /\ aLog' = NoALog
    /\ UNCHANGED <<now, ticks, threshold, writeVars, budget, docs, seededIdentity, journal, htext, nMsgs,
                   lockVars, autoVars, proactive_messages_today,
                   proactive_messages_date>>

\* a trigger that awaits the consolidation where the code detaches it
TriggerAwaitsConsolidation(u) ==
    /\ Acquire(<<"detached", u, htext[u]>>, sessions)
    /\ spawned' = spawned
    /\ sessions' = [sessions EXCEPT ![u] = ResetCount(@)]
    /\ hpc' = [hpc EXCEPT ![u] = "synthesizing"]

\* the threshold branch that ends _handle_message: create_task, the counter
\* reset, and the handler returns
Trigger(u) ==
    /\ spawned' = Append(spawned, <<"detached", u, htext[u]>>)
    /\ sessions' = [sessions EXCEPT ![u] = ResetCount(@)]
    /\ hpc' = [hpc EXCEPT ![u] = "idle"]
    /\ UNCHANGED <<locked, waiters, running>>

\* reply_text returns or raises for the chunk in flight: the next chunk, or
\* the threshold test that ends _handle_message, or the exception that ends it
ReplyResult(u, ok) ==
    /\ hpc[u] = "send"
    /\ IF ok /\ hchunks[u] > 1
       THEN /\ hchunks' = [hchunks EXCEPT ![u] = @ - 1]
            /\ UNCHANGED <<hpc, sessions, lockVars>>
       ELSE /\ hchunks' = [hchunks EXCEPT ![u] = 0]
            /\ IF ok /\ ThresholdReached(sessions[u].message_count, threshold)
               THEN Trigger(u)
               ELSE /\ hpc' = [hpc EXCEPT ![u] = "idle"]
                    /\ UNCHANGED <<sessions, lockVars>>
    /\ synthLog' = NoLog
    /\ aLog' = NoALog
    /\ UNCHANGED <<now, ticks, threshold, writeVars, budget, docs, seededIdentity, journal, htext, nMsgs,
                   autoVars, outreachVars>>

\* /forget: _forget_command (its reply changes nothing whether it is sent or
\* not)
ForgetCommand(u) ==
    /\ hpc[u] = "idle"
    /\ budget.forgets[u] > 0
    /\ IF ~_is_authorized(u)
       THEN /\ budget' = [budget EXCEPT !.forgets[u] = @ - 1]
            /\ UNCHANGED <<now, ticks, threshold, writeVars, docs, seededIdentity, journal,
                           sessionVars, lockVars, synthLog, aLog, autoVars, outreachVars>>
       ELSE /\ budget' = [budget EXCEPT !.forgets[u] = @ - 1]
            /\ sessions' = [_get_session(sessions, u, now) EXCEPT ![u] = clear(@, now)]
            /\ synthLog' = NoLog
            /\ aLog' = NoALog
            /\ UNCHANGED <<now, ticks, threshold, writeVars, docs, seededIdentity, journal, hpc,
                           htext, hchunks, nMsgs, lockVars, autoVars, outreachVars>>

\* /start and /memory: replies only
ReadOnlyCommand(u) ==
    /\ hpc[u] = "idle"
    /\ UNCHANGED vars

\* the clock advances
Tick ==
    /\ ticks < MaxTicks
    /\ ticks' = ticks + 1
    /\ now' = now + TickMinutes
    /\ synthLog' = NoLog
    /\ aLog' = NoALog
    /\ UNCHANGED <<threshold, writeVars, budget, docs, seededIdentity, journal, sessionVars,
                   lockVars, autoVars, outreachVars>>

(* --------------------------- autonomy cycle --------------------------- *)
\* datetime.hour and strftime("%Y-%m-%d") of a clock value
HourOf(t) == (t \div 60) % 24
DateOf(t) == t \div (24 * 60)

\* the quiet-hours test with the hour that starts the window left out of it
InQuietWindowAfterStart(hour, start, end) ==
    IF start > end THEN hour > start \/ hour < end
    ELSE start < hour /\ hour < end

\* the comparison of AutonomyLoop._in_quiet_hours
InQuietWindow(hour, start, end) ==
    IF start > end THEN hour >= start \/ hour < end
    ELSE start <= hour /\ hour < end

\* AutonomyLoop._in_quiet_hours
_in_quiet_hours(t) ==
    LET hour == HourOf(t)
        start == quiet_hours_start
        end == quiet_hours_end
    IN InQuietWindow(hour, start, end)

\* the cooldown test with the configured hours compared as if they were minutes
_cooldown_active_minutes(lmt, t) ==
    IF lmt = None THEN FALSE
    ELSE (t - lmt) * 60 < proactive_cooldown_hours * 60

\* AutonomyLoop._cooldown_active
_cooldown_active(lmt, t) ==
    IF lmt = None THEN FALSE
    ELSE (t - lmt) * 60 < proactive_cooldown_hours * 3600

\* the daily-limit test without the comparison of the stored date with today
_daily_limit_reached_any_day(count, date, t) ==
    count >= max_proactive_messages_per_day

\* AutonomyLoop._daily_limit_reached
_daily_limit_reached(count, date, t) ==
    IF date # DateOf(t) THEN FALSE
    ELSE count >= max_proactive_messages_per_day

\* MemoryManager.add_journal_entry: the day's file with the block appended,
\* or created with its header
add_journal_entry(j, t, fails) ==
    LET date == DateOf(t)
        entry == <<"entry", t>>
        content == IF date \in DOMAIN j THEN Append(j[date], entry)
                   ELSE <<(<<"header", date>>), entry>>
    IN IF fails THEN [journal |-> j, raised |-> "OSError"]
       ELSE [journal |-> (date :> content) @@ j, raised |-> "none"]

\* ClaudeClient.think after the completion call returned resp
think(resp) ==
    LET parsed == json_loads(Strip(ExtractFenced(resp.text)))
    IN IF parsed = "JSONDecodeError"
       THEN [raised |-> "none",
             decision |-> [should_message |-> FALSE, journal_entry |-> FALSE,
                           queue_updates |-> FALSE]]
       ELSE IF parsed = "array"
       THEN [raised |-> "AttributeError", decision |-> resp.decision]
       ELSE [raised |-> "none", decision |-> resp.decision]

ThinkTexts == {<<"obj">>, <<"~~~json", "obj", "~~~">>, <<"junk">>, <<"arr">>}

\* a decision object: whether it carries a journal entry and a queue
\* replacement, and its should_message
Decisions == [should_message : BOOLEAN, journal_entry : BOOLEAN, queue_updates : BOOLEAN]

AllTrue == [should_message |-> TRUE, journal_entry |-> TRUE, queue_updates |-> TRUE]

\* the completion call fails; or its text is any of ThinkTexts around a
\* decision with every member set; or it is a bare object with any decision
ThinkResponses ==
    {[api |-> "error", text |-> <<>>, decision |-> AllTrue]}
    \cup {[api |-> "ok", text |-> t, decision |-> AllTrue] : t \in ThinkTexts}
    \cup {[api |-> "ok", text |-> <<"obj">>, decision |-> d] : d \in Decisions}

\* a cycle that applies the journal and queue writes only when the decision
\* asks for no message
AfterThinkWritesOnlyWithoutOutreach(d, j, resp, ioFails, lmt, count, date, t) ==
    LET th == IF resp.api = "error"
              THEN [raised |-> "APIError", decision |-> resp.decision]
              ELSE think(resp)
        dec == th.decision
        jw == IF th.raised = "none" /\ dec.journal_entry /\ ~dec.should_message
              THEN add_journal_entry(j, t, ioFails)
              ELSE [journal |-> j, raised |-> th.raised]
        qw == IF jw.raised = "none" /\ dec.queue_updates /\ ~dec.should_message
              THEN update_file(d, "queue.md", "q1", ioFails /\ ~dec.journal_entry)
              ELSE [docs |-> d, raised |-> jw.raised]
        gate == IF qw.raised # "none" THEN "n/a"
                ELSE IF ~dec.should_message THEN "no_message"
                ELSE IF _cooldown_active(lmt, t) THEN "cooldown"
                ELSE IF _daily_limit_reached(count, date, t) THEN "limit"
                ELSE "pass"
    IN [docs |-> qw.docs,
        journal |-> jw.journal,
        raised |-> qw.raised,
        thought |-> th.raised = "none",
        decision |-> IF th.raised = "none" THEN dec ELSE NoDecision,
        wroteQueue |-> (jw.raised = "none" /\ dec.queue_updates /\ ~dec.should_message
                       /\ qw.raised = "none"),
        gate |-> gate,
        compose |-> gate = "pass"]

\* run_cycle from the return of claude.think to its next await or its end:
\* the journal and queue writes and the three tests before composing
AfterThink(d, j, resp, ioFails, lmt, count, date, t) ==
    LET th == IF resp.api = "error"
              THEN [raised |-> "APIError", decision |-> resp.decision]
              ELSE think(resp)
        dec == th.decision
        jw == IF th.raised = "none" /\ dec.journal_entry
              THEN add_journal_entry(j, t, ioFails)
              ELSE [journal |-> j, raised |-> th.raised]
        qw == IF jw.raised = "none" /\ dec.queue_updates
              THEN update_file(d, "queue.md", "q1", ioFails /\ ~dec.journal_entry)
              ELSE [docs |-> d, raised |-> jw.raised]
        gate == IF qw.raised # "none" THEN "n/a"
                ELSE IF ~dec.should_message THEN "no_message"
                ELSE IF _cooldown_active(lmt, t) THEN "cooldown"
                ELSE IF _daily_limit_reached(count, date, t) THEN "limit"
                ELSE "pass"
    IN [docs |-> qw.docs,
        journal |-> jw.journal,
        raised |-> qw.raised,
        thought |-> th.raised = "none",
        decision |-> IF th.raised = "none" THEN dec ELSE NoDecision,
        wroteQueue |-> (jw.raised = "none" /\ dec.queue_updates /\ qw.raised = "none"),
        gate |-> gate,
        compose |-> gate = "pass"]

\* an except clause of run_cycle that lets the errors of reading the decision
\* through
EscapesCycleUnlessApiOrIo(raised) == raised \notin {"none", "APIError", "OSError"}

\* whether an error raised inside run_cycle leaves it: its whole body is in
\* try / except Exception, which logs and returns
EscapesCycle(raised) == FALSE

\* where run_cycle is after a step that ends it
CycleEnd(raised) == IF EscapesCycle(raised) THEN "escaped" ELSE "idle"

\* the JobQueue runs run_cycle: the quiet-hours test, then the await of
\* claude.think
CycleStart ==
    /\ apc = "idle"
    /\ budget.cycles > 0
    /\ budget' = [budget EXCEPT !.cycles = @ - 1]
    /\ apc' = IF _in_quiet_hours(now) THEN "idle" ELSE "think_await"
    /\ synthLog' = NoLog
    /\ aLog' = [NoALog EXCEPT !.step = "start",
                              !.gate = IF _in_quiet_hours(now) THEN "quiet" ELSE "pass",
                              !.after = aLog.raised]
    /\ UNCHANGED <<now, ticks, threshold, writeVars, docs, seededIdentity, journal, sessionVars,
                   lockVars, aChunks, aIdx, aLeft, outreachVars>>

\* claude.think returns or raises
ThinkReturn(resp, ioFails) ==
    /\ apc = "think_await"
    /\ LET a == AfterThink(docs, journal, resp, ioFails, last_message_time,
                           proactive_messages_today, proactive_messages_date, now)
       IN /\ docs' = a.docs
          /\ journal' = a.journal
          /\ running' = IF a.wroteQueue THEN MarkDirty(running, {"queue.md"}) ELSE running
          /\ apc' = IF a.compose THEN "compose_await" ELSE CycleEnd(a.raised)
          /\ aLog' = [NoALog EXCEPT !.step = "think", !.raised = a.raised,
                                    !.thought = a.thought, !.decision = a.decision,
                                    !.gate = a.gate]
    /\ synthLog' = NoLog
    /\ UNCHANGED <<now, ticks, threshold, writeVars, budget, seededIdentity, sessionVars, locked, waiters,
                   spawned, aChunks, aIdx, aLeft, outreachVars>>

\* what claude.compose_proactive_message may do
ComposeResults == {[ok |-> TRUE, chunks |-> 1], [ok |-> TRUE, chunks |-> 2],
                   [ok |-> FALSE, chunks |-> 0]}

\* claude.compose_proactive_message returns or raises: on to the first send
\* to the first recipient
ComposeReturn(res) ==
    /\ apc = "compose_await"
    /\ IF res.ok /\ allowed_user_ids # <<>>
       THEN /\ apc' = "deliver"
            /\ aChunks' = res.chunks
            /\ aIdx' = 1
            /\ aLeft' = res.chunks
       ELSE /\ apc' = CycleEnd(IF res.ok THEN "none" ELSE "APIError")
            /\ UNCHANGED <<aChunks, aIdx, aLeft>>
    /\ synthLog' = NoLog
    /\ aLog' = [NoALog EXCEPT !.step = "compose",
                              !.raised = IF res.ok THEN "none" ELSE "APIError"]
    /\ UNCHANGED <<now, ticks, threshold, writeVars, budget, docs, seededIdentity, journal, sessionVars,
                   lockVars, outreachVars>>

\* send_proactive_message after its last chunk went out
RecordProactiveSend(count, date, t) ==
    LET today == DateOf(t)
    IN [last_message_time |-> t,
        date |-> today,
        count |-> (IF date # today THEN 0 ELSE count) + 1]

\* a send loop without its per-recipient try/except: the first failure ends
\* the deliveries of the cycle
DeliverResultStopsAtFailure(ok) ==
    /\ apc = "deliver"
    /\ IF ok /\ aLeft > 1
       THEN /\ aLeft' = aLeft - 1
            /\ UNCHANGED <<apc, aIdx, aChunks, outreachVars>>
       ELSE /\ IF ok
               THEN LET rec == RecordProactiveSend(proactive_messages_today,
                                                   proactive_messages_date, now)
                    IN /\ last_message_time' = rec.last_message_time
                       /\ proactive_messages_today' = rec.count
                       /\ proactive_messages_date' = rec.date
               ELSE UNCHANGED outreachVars
            /\ IF ok /\ aIdx < Len(allowed_user_ids)
               THEN /\ aIdx' = aIdx + 1
                    /\ aLeft' = aChunks
                    /\ UNCHANGED <<apc, aChunks>>
               ELSE /\ apc' = "idle"
                    /\ aIdx' = 0
                    /\ aLeft' = 0
                    /\ aChunks' = 0
    /\ synthLog' = NoLog
    /\ aLog' = [NoALog EXCEPT !.step = "deliver", !.recipient = aIdx, !.ok = ok]
    /\ UNCHANGED <<now, ticks, threshold, writeVars, budget, docs, seededIdentity, journal, sessionVars,
                   lockVars>>

\* send_message returns or raises for the chunk in flight
DeliverResult(ok) ==
    /\ apc = "deliver"
    /\ IF ok /\ aLeft > 1
       THEN /\ aLeft' = aLeft - 1
            /\ UNCHANGED <<apc, aIdx, aChunks, outreachVars>>
       ELSE /\ IF ok
               THEN LET rec == RecordProactiveSend(proactive_messages_today,
                                                   proactive_messages_date, now)
                    IN /\ last_message_time' = rec.last_message_time
                       /\ proactive_messages_today' = rec.count
                       /\ proactive_messages_date' = rec.date
               ELSE UNCHANGED outreachVars
            /\ IF aIdx < Len(allowed_user_ids)
               THEN /\ aIdx' = aIdx + 1
                    /\ aLeft' = aChunks
                    /\ UNCHANGED <<apc, aChunks>>
               ELSE /\ apc' = "idle"
                    /\ aIdx' = 0
                    /\ aLeft' = 0
                    /\ aChunks' = 0
    /\ synthLog' = NoLog
    /\ aLog' = [NoALog EXCEPT !.step = "deliver", !.recipient = aIdx, !.ok = ok]
    /\ UNCHANGED <<now, ticks, threshold, writeVars, budget, docs, seededIdentity, journal, sessionVars,
                   lockVars>>

(* --------------------------- specification ---------------------------- *)
\* a step of the consolidation whose model call is outstanding
SynthStep == \E i \in DOMAIN running, resp \in SynthResponses, ioFails \in BOOLEAN :
                SynthReturn(i, resp, ioFails)

Next ==
    \/ \E u \in Users : HandleMessage(u)
    \/ SynthStep
    \/ \E u \in Users, res \in ChatResults : ChatReturn(u, res)
    \/ \E u \in Users, ok \in BOOLEAN : ReplyResult(u, ok)
    \/ \E u \in Users : ForgetCommand(u)
    \/ \E u \in Users : ReadOnlyCommand(u)
    \/ ResumeWaiter
    \/ StartDetached
    \/ Tick
    \/ CycleStart
    \/ \E resp \in ThinkResponses, ioFails \in BOOLEAN : ThinkReturn(resp, ioFails)
    \/ \E res \in ComposeResults : ComposeReturn(res)
    \/ \E ok \in BOOLEAN : DeliverResult(ok)

Spec == Init /\ [][Next]_vars

\* the conversation side alone: one user, every threshold, /forget, the clock
NextSessions ==
    \/ \E u \in Users : HandleMessage(u)
    \/ SynthStep
    \/ \E u \in Users, res \in ChatResults : ChatReturn(u, res)
    \/ \E u \in Users, ok \in BOOLEAN : ReplyResult(u, ok)
    \/ \E u \in Users : ForgetCommand(u)
    \/ \E u \in Users : ReadOnlyCommand(u)
    \/ ResumeWaiter
    \/ StartDetached
    \/ Tick

SpecSessions == InitIn(SessionRuns) /\ [][NextSessions]_vars

\* the same steps with a user outside allowed_user_ids sending updates
SpecStranger == InitIn(StrangerRuns) /\ [][NextSessions]_vars

\* a step of the consolidation whose model call is outstanding, over one
\* response of each kind of outcome
SynthOutcomeStep ==
    \E i \in DOMAIN running, resp \in OutcomeResponses, ioFails \in BOOLEAN :
        SynthReturn(i, resp, ioFails)

\* two users whose consolidations contend
NextTwoUsers ==
    \/ \E u \in Users : HandleMessage(u)
    \/ SynthOutcomeStep
    \/ \E u \in Users, res \in ChatResults : ChatReturn(u, res)
    \/ \E u \in Users, ok \in BOOLEAN : ReplyResult(u, ok)
    \/ \E u \in Users : ReadOnlyCommand(u)
    \/ ResumeWaiter
    \/ StartDetached
    \/ Tick

SpecTwoUsers == InitIn(TwoUserRuns) /\ [][NextTwoUsers]_vars

\* every task that can run is eventually run by the event loop, and every
\* model call returns or raises
FairTwoUsers ==
    SpecTwoUsers /\ WF_vars(ResumeWaiter) /\ WF_vars(StartDetached)
                 /\ WF_vars(SynthOutcomeStep)

\* one user beside the autonomy cycle
NextAutonomy ==
    \/ \E u \in Users : HandleMessage(u)
    \/ SynthOutcomeStep
    \/ \E u \in Users, res \in ChatResults : ChatReturn(u, res)
    \/ \E u \in Users, ok \in BOOLEAN : ReplyResult(u, ok)
    \/ \E u \in Users : ReadOnlyCommand(u)
    \/ ResumeWaiter
    \/ StartDetached
    \/ Tick
    \/ CycleStart
    \/ \E resp \in ThinkResponses, ioFails \in BOOLEAN : ThinkReturn(resp, ioFails)
    \/ \E res \in ComposeResults : ComposeReturn(res)
    \/ \E ok \in BOOLEAN : DeliverResult(ok)

SpecAutonomy == InitIn(AutonomyRuns) /\ [][NextAutonomy]_vars

(* ------------------ a document write, step by step --------------------- *)
\* document writes, and kills of the process, in the runs about writes
MaxWrites == 2
MaxKills == 1

\* update_file to the return of mkstemp: an empty file under a name no file
\* has
MkStemp(filename, content) ==
    /\ wpc = "idle"
    /\ wbudget.writes > 0
    /\ filename \in FileNames
    /\ wbudget' = [wbudget EXCEPT !.writes = @ - 1]
    /\ tmpFiles' = Append(tmpFiles, Partial(content, 0))
    /\ wr' = [path |-> filename, content |-> content, tmp |-> Len(tmpFiles) + 1,
              pre |-> disk[filename]]
    /\ wpc' = "write"
    /\ UNCHANGED <<disk, seen, programVars, callVars>>

\* f.write and the close of the with block: one more block of the content
\* reaches the temp file; after the last one os.replace is next
WriteTmp ==
    /\ wpc = "write"
    /\ LET k == tmpFiles[wr.tmp].written + 1
       IN /\ tmpFiles' = [tmpFiles EXCEPT ![wr.tmp] = Partial(wr.content, k)]
          /\ wpc' = IF k = BlocksPerWrite THEN "replace" ELSE "write"
    /\ UNCHANGED <<disk, wr, seen, wbudget, programVars, callVars>>

\* the write or the rename raises: the except branch unlinks the temp file
\* and re-raises
WriteRaises ==
    /\ wpc \in {"write", "replace"}
    /\ tmpFiles' = [tmpFiles EXCEPT ![wr.tmp] = NoFile]
    /\ wpc' = "idle"
    /\ UNCHANGED <<disk, wr, seen, wbudget, programVars, callVars>>

\* a rename issued while the temp file is still being written
ReadyToReplaceEarly(pc) == pc \in {"write", "replace"}

\* os.replace comes after the with block has closed the temp file
ReadyToReplace(pc) == pc = "replace"

\* os.replace(tmp_path, path): the temp file becomes the document in one step
OsReplace ==
    /\ ReadyToReplace(wpc)
    /\ disk' = [disk EXCEPT ![wr.path] = tmpFiles[wr.tmp]]
    /\ tmpFiles' = [tmpFiles EXCEPT ![wr.tmp] = NoFile]
    /\ wpc' = "replaced"
    /\ UNCHANGED <<wr, seen, wbudget, programVars, callVars>>

\* _atomic_write and update_file return
WriteReturn ==
    /\ wpc = "replaced"
    /\ wpc' = "idle"
    /\ UNCHANGED <<disk, tmpFiles, wr, seen, wbudget, programVars, callVars>>

\* the process is killed, wherever the write stands; the files stay
Kill ==
    /\ wpc # "dead"
    /\ wbudget.kills > 0
    /\ wbudget' = [wbudget EXCEPT !.kills = @ - 1]
    /\ wpc' = "dead"
    /\ UNCHANGED <<disk, tmpFiles, wr, seen, programVars, callVars>>

\* the process starts again: MemoryManager.__init__ seeds the documents
\* that are absent
Restart ==
    /\ wpc = "dead"
    /\ disk' = [f \in WrittenFiles |->
                   IF disk[f].exists THEN disk[f] ELSE Whole(Template(f))]
    /\ wpc' = "idle"
    /\ UNCHANGED <<tmpFiles, wr, seen, wbudget, programVars, callVars>>

\* a reader opens a document and reads it to the end, at any moment
ReadTarget(filename) ==
    /\ seen' = disk[filename]
    /\ UNCHANGED <<disk, tmpFiles, wpc, wr, wbudget, programVars, callVars>>

NextAtomicWrite ==
    \/ \E filename \in WrittenFiles, content \in NewTexts : MkStemp(filename, content)
    \/ WriteTmp
    \/ WriteRaises
    \/ OsReplace
    \/ WriteReturn
    \/ Kill
    \/ Restart
    \/ \E filename \in WrittenFiles : ReadTarget(filename)

\* the run of the program in which the writes are followed
AtomicWriteRuns == {run \in SessionRuns : run.threshold = 1}

InitAtomicWrite == InitProgram(AtomicWriteRuns) /\ InitWriting(MaxWrites, MaxKills)

SpecAtomicWrite == InitAtomicWrite /\ [][NextAtomicWrite]_vars

(* --------------- update_file and _read_file, by character -------------- *)
\* longest content written
MaxTextLen == 2

\* characters of a content: a letter, a line feed, a carriage return
Chars == {"a", "LF", "CR"}

Texts == UNION {[1..k -> Chars] : k \in 0..MaxTextLen}

\* os.linesep of the platform the bot is deployed on
os_linesep == <<"LF">>

\* f.write on a file opened with mode "w" and the default newline: every
\* line feed is written as os.linesep, the rest as it is
RECURSIVE write_text(_)
write_text(text) ==
    IF text = <<>> THEN <<>>
    ELSE (IF Head(text) = "LF" THEN os_linesep ELSE <<Head(text)>>) \o write_text(Tail(text))

\* f.read on a file opened with mode "r" and the default newline: universal
\* newlines, a carriage return with or without a line feed after it is read
\* as one line feed
RECURSIVE read_text(_)
read_text(bytes) ==
    IF bytes = <<>> THEN <<>>
    ELSE IF Head(bytes) = "CR"
    THEN <<"LF">> \o read_text(IF Len(bytes) > 1 /\ bytes[2] = "LF" THEN Tail(Tail(bytes))
                              ELSE Tail(bytes))
    ELSE <<Head(bytes)>> \o read_text(Tail(bytes))

AbsentFile == [exists |-> FALSE, bytes |-> <<>>]
StoredFile(bytes) == [exists |-> TRUE, bytes |-> bytes]

\* MemoryManager.update_file down to the characters that reach the file
update_file_text(fs, filename, content) ==
    IF filename \notin FileNames THEN [files |-> fs, raised |-> "ValueError"]
    ELSE [files |-> [fs EXCEPT ![filename] = StoredFile(write_text(content))],
          raised |-> "none"]

\* MemoryManager._read_file down to the characters read: the empty text for
\* a path that holds no file
_read_file_text(fs, filename) ==
    IF filename \notin DOMAIN fs \/ ~fs[filename].exists THEN <<>>
    ELSE read_text(fs[filename].bytes)

\* the memory directory as _seed_files leaves it: every template is lines of
\* text ending in line feeds
SeededFiles == [f \in FileNames |-> StoredFile(<<"a", "LF">>)]

\* names update_file and _read_file are called with: the fixed set and one
\* name outside it
CallNames == FileNames \cup {"notes.md"}

NoWriteCall == [filename |-> "", content |-> <<>>, raised |-> "n/a", before |-> SeededFiles]
NoReadCall == [filename |-> "", text |-> <<>>]

\* update_file(filename, content)
UpdateFileCall(filename, content) ==
    /\ lastWrite = NoWriteCall
    /\ LET res == update_file_text(files, filename, content)
       IN /\ files' = res.files
          /\ lastWrite' = [filename |-> filename, content |-> content,
                           raised |-> res.raised, before |-> files]
    /\ lastRead' = NoReadCall
    /\ UNCHANGED <<programVars, disk, tmpFiles, wpc, wr, seen, wbudget, smText, smChunks>>

\* _read_file(filename)
ReadFileCall(filename) ==
    /\ lastRead' = [filename |-> filename, text |-> _read_file_text(files, filename)]
    /\ UNCHANGED <<programVars, disk, tmpFiles, wpc, wr, seen, wbudget, files, lastWrite,
                   smText, smChunks>>

NextRoundTrip ==
    \/ \E filename \in CallNames, content \in Texts : UpdateFileCall(filename, content)
    \/ \E filename \in CallNames : ReadFileCall(filename)

InitRoundTrip ==
    /\ InitProgram(AtomicWriteRuns)
    /\ InitDisk(0, 0)
    /\ files = SeededFiles
    /\ lastWrite = NoWriteCall
    /\ lastRead = NoReadCall
    /\ smText = <<>>
    /\ smChunks = <<>>

SpecRoundTrip == InitRoundTrip /\ [][NextRoundTrip]_vars

(* ---------------------- split_message, by character --------------------- *)
\* the max_len split_message is called with, and the longest text split
MaxChunkLen == 3
MaxSplitInput == 5

\* characters of a message: a letter, a period, a space, a line feed
SplitChars == {"a", ".", " ", "LF"}

SplitTexts == UNION {[1..k -> SplitChars] : k \in 0..MaxSplitInput}

\* what str.lstrip and str.rstrip remove
Whitespace == {" ", "LF"}

RECURSIVE str_lstrip(_)
str_lstrip(text) ==
    IF text # <<>> /\ Head(text) \in Whitespace THEN str_lstrip(Tail(text)) ELSE text

RECURSIVE str_rstrip(_)
str_rstrip(text) ==
    IF text # <<>> /\ text[Len(text)] \in Whitespace
    THEN str_rstrip(SubSeq(text, 1, Len(text) - 1)) ELSE text

\* what str.rfind returns when there is no occurrence
NotFound == 0 - 1

\* text.rfind(sub, 0, end): the highest index (from 0) of an occurrence of
\* sub that lies within text[0:end]
rfind(text, sub, end) ==
    LET hits == {i \in 0..(end - Len(sub)) :
                    /\ i + Len(sub) <= Len(text)
                    /\ SubSeq(text, i + 1, i + Len(sub)) = sub}
    IN IF hits = {} THEN NotFound ELSE CHOOSE i \in hits : \A j \in hits : j <= i

\* the while loop of split_message
RECURSIVE SplitLoop(_, _)
SplitLoop(text, max_len) ==
    IF text = <<>> THEN <<>>
    ELSE IF Len(text) <= max_len THEN <<text>>
    ELSE LET paragraph == rfind(text, <<"LF", "LF">>, max_len)
             sentence == rfind(text, <<".", " ">>, max_len)
             newline == rfind(text, <<"LF">>, max_len)
             split_at == IF paragraph # NotFound THEN paragraph
                         ELSE IF sentence # NotFound THEN sentence + 1
                         ELSE IF newline # NotFound THEN newline
                         ELSE max_len
         IN <<str_rstrip(SubSeq(text, 1, split_at))>>
            \o SplitLoop(str_lstrip(SubSeq(text, split_at + 1, Len(text))), max_len)

\* split_message
split_message(text, max_len) ==
    IF Len(text) <= max_len THEN <<text>> ELSE SplitLoop(text, max_len)

\* split_message(text) is called and returns
SplitMessageCall ==
    /\ smChunks = <<>>
    /\ smChunks' = split_message(smText, MaxChunkLen)
    /\ UNCHANGED <<programVars, disk, tmpFiles, wpc, wr, seen, wbudget, files, lastWrite,
                   lastRead, smText>>

NextSplit == SplitMessageCall

InitSplit ==
    /\ InitProgram(AtomicWriteRuns)
    /\ InitDisk(0, 0)
    /\ files = <<>>
    /\ lastWrite = <<>>
    /\ lastRead = <<>>
    /\ smText \in SplitTexts
    /\ smChunks = <<>>

SpecSplit == InitSplit /\ [][NextSplit]_vars

(* ---- the autonomy cycle over what earlier outreach has left behind ---- *)
\* clock values of the second day the process is up: the last quiet minute
\* of the morning, the first minute after it, the last minute before the
\* quiet hours, their first minute
OutreachTimes ==
    {24 * 60 + h * 60 + m : <<h, m>> \in {<<quiet_hours_end - 1, 59>>, <<quiet_hours_end, 0>>,
                                         <<quiet_hours_start - 1, 59>>,
                                         <<quiet_hours_start, 0>>}}

\* earlier moments, seen from t: a day ago, exactly the cooldown ago, a
\* minute less than the cooldown ago
Past(t) ==
    {t - 24 * 60, t - proactive_cooldown_hours * 60, t - proactive_cooldown_hours * 60 + 1}

\* the fields of AmbientBot that outreach before t can have left: nothing;
\* replies to users only; or k proactive sends, the last one at s (outside
\* the quiet hours), and maybe a reply after it at s2
OutreachPasts(t) ==
    {[last_message_time |-> None, count |-> 0, date |-> None]}
    \cup {[last_message_time |-> s, count |-> 0, date |-> None] : s \in Past(t)}
    \cup UNION {{[RecordProactiveSend(k - 1, IF k = 1 THEN None ELSE DateOf(s), s)
                    EXCEPT !.last_message_time = s2] :
                    s2 \in {x \in Past(t) : x >= s},
                    k \in 1..(max_proactive_messages_per_day + 1)} :
                 s \in {x \in Past(t) : ~_in_quiet_hours(x)}}

InitOutreach ==
    /\ now \in OutreachTimes
    /\ ticks = 0
    /\ threshold = 2 * MaxOutreachMsgs + 1
    /\ budget = [msgs |-> (1 :> MaxOutreachMsgs) @@ (2 :> 0) @@ (3 :> 0),
                 forgets |-> (1 :> 0) @@ (2 :> 0) @@ (3 :> 0),
                 cycles |-> MaxOutreachCycles]
    /\ docs = _seed_files(FreshDisk)
    /\ seededIdentity = _seed_files(FreshDisk)["identity.md"]
    /\ journal = <<>>
    /\ sessions = <<>>
    /\ hpc = [u \in Users |-> "idle"]
    /\ htext = [u \in Users |-> 0]
    /\ hchunks = [u \in Users |-> 0]
    /\ nMsgs = 0
    /\ locked = FALSE
    /\ waiters = <<>>
    /\ running = <<>>
    /\ InitWriting(0, 0)
    /\ spawned = <<>>
    /\ synthLog = NoLog
    /\ aLog = NoALog
    /\ apc = "idle"
    /\ aChunks = 0
    /\ aIdx = 0
    /\ aLeft = 0
    /\ \E past \in OutreachPasts(now) :
          /\ last_message_time = past.last_message_time
          /\ proactive_messages_today = past.count
          /\ proactive_messages_date = past.date

\* no clock step and a threshold out of reach: no consolidation starts
NextOutreach ==
    \/ \E u \in Users : HandleMessage(u)
    \/ \E u \in Users, res \in ChatResults : ChatReturn(u, res)
    \/ \E u \in Users, ok \in BOOLEAN : ReplyResult(u, ok)
    \/ \E u \in Users : ReadOnlyCommand(u)
    \/ CycleStart
    \/ \E resp \in ThinkResponses, ioFails \in BOOLEAN : ThinkReturn(resp, ioFails)
    \/ \E res \in ComposeResults : ComposeReturn(res)
    \/ \E ok \in BOOLEAN : DeliverResult(ok)

SpecOutreach == InitOutreach /\ [][NextOutreach]_vars

(* ------------------------------ properties ---------------------------- *)
\* C1: at most one consolidation is inside the critical section (context
\* loaded, model call outstanding, documents not yet written) at a time, and
\* it holds the lock; every other caller, awaited or detached, of whatever
\* user, is queued.
C1_OneConsolidationAtATime ==
    /\ Len(running) <= 1
    /\ running # <<>> => locked

\* C1 witness: user 1's detached consolidation is in the section while user
\* 2's awaited expiry consolidation and a detached one are queued behind it.
C1_Witness ==
    /\ Len(running) = 1
    /\ running[1].task[1] = "detached"
    /\ \E k \in DOMAIN waiters :
          waiters[k][1] = "awaited" /\ waiters[k][2] # running[1].task[2]
    /\ \E k \in DOMAIN waiters : waiters[k][1] = "detached"

\* C2: while a consolidation is between reading the full context and writing
\* its updates, nobody else writes a memory document.
C2_NoWriteUnderConsolidation ==
    \A i \in DOMAIN running : running[i].dirty = {}

\* C3: identity.md holds what seeding left in it, and seeding again would
\* leave it there.
C3_IdentityNeverRewritten ==
    /\ docs["identity.md"] = seededIdentity
    /\ _seed_files(docs)["identity.md"] = seededIdentity

\* C3 witness: a consolidation whose updates named identity.md has just
\* written another document, over an identity.md a person wrote.
C3_Witness ==
    /\ seededIdentity = "custom"
    /\ \E i \in DOMAIN synthLog.updates : synthLog.updates[i][1] = "identity.md"
    /\ synthLog.applied # <<>>
    /\ docs["queue.md"] = "m1"

\* C4: a consolidation that parsed its result and met no write failure has
\* written every known document, other than identity.md, that the result
\* names; an unknown name beside them changes nothing about that.
C4_UnknownNameSkippedAlone ==
    (synthLog.parsed = "object" /\ synthLog.raised \in {"none", "ValueError"})
    => \A i \in DOMAIN synthLog.updates :
          (synthLog.updates[i][1] \in FileNames \ {"identity.md"})
          => synthLog.updates[i][1] \in Range(synthLog.applied)

\* C5: a consolidation whose model output did not parse as the structured
\* result has written nothing, and nothing was raised to its caller.
C5_ParseFailureAppliesNothing ==
    synthLog.parsed \in {"JSONDecodeError", "array"}
    => /\ docs = synthLog.before
       /\ synthLog.applied = <<>>
       /\ ~synthLog.escaped

\* C5 witness: the expiry consolidation got an array back, and the handler
\* that awaited it has gone on to the chat call.
C5_Witness ==
    /\ synthLog.parsed = "array"
    /\ synthLog.task[1] = "awaited"
    /\ hpc[synthLog.task[2]] = "chat_await"

\* every task _maybe_synthesize may run as: awaited by the handler of a
\* message, or detached by it
TaskIds ==
    {<<kind, u, m>> : kind \in {"awaited", "detached"},
                      u \in Range(allowed_user_ids), m \in 1..(MaxMsgs + 1)}

\* C6: the lock is free whenever no consolidation is running, whichever way
\* the last one ended, and every consolidation queued for the lock enters the
\* section, given that every outstanding model call returns or raises.
C6_LockReleasedOnEveryExit ==
    /\ [](running = <<>> => ~locked)
    /\ \A t \in TaskIds :
          (t \in Range(waiters)) ~> (\E i \in DOMAIN running : running[i].task = t)

\* C6 witness: a consolidation has just ended on a failed write; the lock is
\* free and the next consolidation in the queue is about to take it.
C6_Witness ==
    /\ synthLog.raised = "OSError"
    /\ running = <<>>
    /\ ~locked
    /\ waiters # <<>>

\* C7: no handler is held up behind the outstanding model call of another
\* user's consolidation.
C7_OtherUsersNotHeldUp ==
    \A k \in DOMAIN waiters, i \in DOMAIN running :
        waiters[k][1] = "awaited" => waiters[k][2] = running[i].task[2]

\* this step is the threshold trigger of user u: create_task
TriggerFor(u) ==
    /\ Len(spawned') = Len(spawned) + 1
    /\ spawned'[Len(spawned')][2] = u

C9_ExpiredIffNonEmptyAndTimedOut ==
    \A u \in DOMAIN sessions :
        is_expired(sessions[u], now, session_timeout_minutes)
        <=> /\ sessions[u].messages # <<>>
            /\ now - sessions[u].last_activity > session_timeout_minutes

\* the turn counter of user u in the sessions ss
CountOf(ss, u) == IF u \in DOMAIN ss THEN ss[u].message_count ELSE 0

\* this step ends the consolidation user u's handler awaited on expiry
ExpiryConsolidationEndsFor(u) == hpc[u] = "synthesizing" /\ hpc'[u] # "synthesizing"

\* this step is a /forget of user u
ForgetFor(u) == budget'.forgets[u] < budget.forgets[u]

\* C10 as stated: the counter goes down only in a step that triggers a
\* consolidation or ends the one triggered on expiry, and those steps reset it.
C10_ResetOnlyWithConsolidation ==
    [][\A u \in Range(allowed_user_ids) :
          /\ CountOf(sessions', u) < CountOf(sessions, u)
                => TriggerFor(u) \/ ExpiryConsolidationEndsFor(u)
          /\ TriggerFor(u) => CountOf(sessions', u) = 0]_vars

\* C10 amended: the counter goes down only in the step of a threshold trigger
\* (to 0), in the step that ends the consolidation awaited on expiry (clear,
\* then the turn being handled: to 1), or in a /forget (to 0, no
\* consolidation); every threshold trigger and every end of an expiry
\* consolidation resets it so.
C10_ResetWithConsolidationOrForget ==
    [][\A u \in Range(allowed_user_ids) :
          /\ CountOf(sessions', u) < CountOf(sessions, u)
                => \/ TriggerFor(u)
                   \/ ExpiryConsolidationEndsFor(u)
                   \/ ForgetFor(u) /\ CountOf(sessions', u) = 0
                                   /\ UNCHANGED <<lockVars, docs>>
          /\ TriggerFor(u) => CountOf(sessions', u) = 0
          /\ ExpiryConsolidationEndsFor(u)
                => /\ CountOf(sessions', u) = 1
                   /\ Len(sessions'[u].messages) = 1]_vars

\* C10 witness: under a threshold of 3, a /forget after one handled message
\* has put the counter back to 0 with no consolidation anywhere.
C10_Witness ==
    /\ threshold = 3
    /\ nMsgs = 1
    /\ \E u \in DOMAIN sessions :
          /\ budget.forgets[u] < MaxForgets
          /\ sessions[u].messages = <<>>
          /\ sessions[u].message_count = 0
    /\ spawned = <<>> /\ waiters = <<>> /\ running = <<>>

\* C11: the consolidation a handler awaits on expiry is given the old turns
\* and not the message being handled, which is appended only after the
\* consolidation has ended and the session was cleared: the session then
\* holds that one user turn, with counter 1.
C11_ExpiryConsolidatesThenClearsThenAppends ==
    /\ \A i \in DOMAIN running :
          running[i].task[1] = "awaited"
          => LET u == running[i].task[2]
                 m == running[i].task[3]
             IN /\ running[i].text # <<>>
                /\ running[i].text = get_conversation_text(sessions[u])
                /\ <<"User", <<"text", m>>>> \notin Range(running[i].text)
    /\ (synthLog.task[1] = "awaited" /\ ~synthLog.escaped)
          => LET u == synthLog.task[2]
                 m == synthLog.task[3]
             IN /\ sessions[u].messages = <<[role |-> "user", content |-> <<"text", m>>]>>
                /\ sessions[u].message_count = 1

\* C11 witness: the expiry consolidation has written a document and ended;
\* the session holds the new message alone and the chat call is outstanding.
C11_Witness ==
    /\ synthLog.task[1] = "awaited"
    /\ synthLog.applied # <<>>
    /\ hpc[synthLog.task[2]] = "chat_await"
    /\ Len(sessions[synthLog.task[2]].messages) = 1

\* the consolidations detached so far that have not ended: not yet started,
\* queued for the lock, or inside it
DetachedPending ==
    {t \in Range(spawned) \cup Range(waiters) \cup {running[i].task : i \in DOMAIN running} :
        t[1] = "detached"}

\* C12: a consolidation detached by the threshold exists only once the
\* handler of its message has sent every chunk of the reply and has returned
\* (the handler never waits for it), and it is inside the section only while
\* it holds the lock.
C12_ReplySentBeforeDetachedConsolidation ==
    /\ \A t \in DetachedPending :
          htext[t[2]] = t[3] => hpc[t[2]] = "idle" /\ hchunks[t[2]] = 0
    /\ \A i \in DOMAIN running :
          running[i].task[1] = "detached" => locked /\ Len(running) = 1

\* C12 witness: the handler of a message has returned and the consolidation
\* it detached is inside the section, its model call outstanding.
C12_Witness ==
    /\ Len(running) = 1
    /\ running[1].task[1] = "detached"
    /\ htext[running[1].task[2]] = running[1].task[3]
    /\ hpc[running[1].task[2]] = "idle"
    /\ locked
    /\ spawned = <<>> /\ waiters = <<>>

(* ------------------------------ quiet hours ---------------------------- *)
Hours == 0..23

\* C13: for every hour, start and end in 0..23 the quiet-hours test is
\* "hour >= start or hour < end" when start > end and "start <= hour < end"
\* otherwise, so that start = 23, end = 8 makes exactly the hours 23, 0..7
\* quiet; and a cycle that starts at a quiet hour makes no model call (it is
\* over at once), writes no memory document and no journal, attempts no
\* delivery and leaves the three outreach fields as they were.
C13_QuietCycleDoesNothing ==
    /\ \A hour \in Hours, start \in Hours, end \in Hours :
          InQuietWindow(hour, start, end)
              <=> ((start > end /\ (hour >= start \/ hour < end))
                   \/ (start <= end /\ start <= hour /\ hour < end))
    /\ {hour \in Hours : InQuietWindow(hour, 23, 8)} = {23} \cup 0..7
    /\ [][(budget'.cycles # budget.cycles
           /\ (HourOf(now) >= quiet_hours_start \/ HourOf(now) < quiet_hours_end))
          => /\ apc' = "idle"
             /\ aLog'.gate = "quiet"
             /\ UNCHANGED <<docs, journal, outreachVars, aChunks, aIdx, aLeft>>]_vars

\* C13 witness: a cycle has started at 07:59, inside the quiet hours, and
\* is over.
C13_Witness ==
    /\ aLog.step = "start"
    /\ aLog.gate = "quiet"
    /\ HourOf(now) = quiet_hours_end - 1
    /\ apc = "idle"

(* ------------------------------- cooldown ------------------------------ *)
\* minutes since the timestamp the bot keeps of its last reply or proactive
\* send
MinutesSinceLastMessage == now - last_message_time

QuotaUsedUpToday ==
    /\ proactive_messages_date = DateOf(now)
    /\ proactive_messages_today >= max_proactive_messages_per_day

\* C15: the daily-limit test reports reached exactly when the stored date
\* is today's UTC date and the stored count is at least the maximum, so a
\* count at the maximum under another day's date is reported not reached and
\* the cycle goes on to compose; the step of the cycle that makes the test
\* leaves the stored count and date alone, and they change only in the step
\* in which a proactive send to a recipient has gone out whole.
C15_DailyLimitTestAndFrame ==
    /\ [](/\ _daily_limit_reached(proactive_messages_today, proactive_messages_date, now)
              <=> QuotaUsedUpToday
          /\ aLog.step = "think" /\ aLog.gate = "limit" => QuotaUsedUpToday
          /\ aLog.step = "think" /\ aLog.gate = "pass" => ~QuotaUsedUpToday)
    /\ [][/\ aLog'.step = "think"
             => UNCHANGED <<proactive_messages_today, proactive_messages_date>>
          /\ ~UNCHANGED <<proactive_messages_today, proactive_messages_date>>
             => aLog'.step = "deliver" /\ aLog'.ok]_vars

\* C15 witness: the count stands at the maximum under yesterday's date; the
\* cycle has made the test, found the limit not reached, and waits for the
\* composition call with the count and date as they were.
C15_Witness ==
    /\ aLog.step = "think"
    /\ aLog.gate = "pass"
    /\ apc = "compose_await"
    /\ proactive_messages_today = max_proactive_messages_per_day
    /\ proactive_messages_date = DateOf(now) - 1

(* ------------------- outreach state and deliveries --------------------- *)
\* the step ends the sending of a reply: the handler of user u was awaiting
\* reply_text for the last chunk and is not any more
ReplyEndsFor(u) == hpc[u] = "send" /\ hchunks[u] = 1 /\ hpc'[u] # "send"

\* C16: the three outreach fields (last_message_time, proactive_messages_today,
\* proactive_messages_date) change only in a step that completes a delivery:
\* the last chunk of a proactive send going out, or the sending of a reply
\* coming to its end; in every other step they stay as they were.
C16_OutreachStateOnlyAfterDelivery ==
    [][~UNCHANGED outreachVars
       => \/ aLog'.step = "deliver" /\ aLog'.ok
          \/ \E u \in Users : ReplyEndsFor(u)]_vars

\* C17: the deliveries of a cycle start with the first authorized recipient
\* and go through allowed_user_ids in order; a send that fails for one
\* recipient is followed by the attempt for the next one, beginning with the
\* first chunk, and a failure for the last recipient ends the cycle normally.
C17_EveryRecipientAttempted ==
    /\ apc = "deliver" => aIdx \in 1..Len(allowed_user_ids) /\ aLeft \in 1..aChunks
    /\ aLog.step = "compose" /\ aLog.raised = "none" => apc = "deliver" /\ aIdx = 1
    /\ aLog.step = "deliver" /\ aLog.recipient < Len(allowed_user_ids)
       => /\ apc = "deliver"
          /\ aIdx \in {aLog.recipient, aLog.recipient + 1}
          /\ ~aLog.ok => aIdx = aLog.recipient + 1 /\ aLeft = aChunks
    /\ aLog.step = "deliver" /\ aLog.recipient = Len(allowed_user_ids) /\ ~aLog.ok
       => apc = "idle"

\* C17 witness: the send to the first recipient has failed and the send to
\* the second one is under way.
C17_Witness ==
    /\ aLog.step = "deliver"
    /\ ~aLog.ok
    /\ aLog.recipient = 1
    /\ apc = "deliver"
    /\ aIdx = 2
    /\ aLeft = aChunks

(* ---------------------- side effects of a cycle ------------------------ *)
\* the step is the one in which claude.think returned a decision to run_cycle
GotDecision == aLog'.step = "think" /\ aLog'.thought

\* the step appends the reflection to the day's journal file
JournalAppended == journal' = add_journal_entry(journal, now, FALSE).journal

\* the step replaces queue.md by the returned text
QueueWritten == docs' = [docs EXCEPT !["queue.md"] = "q1"]

C19_NoErrorEscapesCycle ==
    /\ apc \in {"idle", "think_await", "compose_await", "deliver"}
    /\ aLog.raised # "none"
       => /\ apc = "idle"
          /\ budget.cycles > 0 => ENABLED CycleStart
    /\ aLog.step = "deliver" /\ ~aLog.ok /\ aLog.recipient = Len(allowed_user_ids)
       => /\ apc = "idle"
          /\ budget.cycles > 0 => ENABLED CycleStart
    /\ aLog.step = "start" /\ aLog.after # "none" => apc \in {"idle", "think_await"}

\* C19 witness: the cycle before ended on the AttributeError of a decision
\* that is a JSON array, and the next cycle has started and awaits its
\* thinking call.
C19_Witness ==
    /\ aLog.step = "start"
    /\ aLog.after = "AttributeError"
    /\ apc = "think_await"

(* ---------------------------- atomic replace --------------------------- *)
\* C20: wherever a document write stands, and wherever the process is
\* killed in it (temp file created, partly written, written, renamed), every
\* document exists and is whole; the document being written holds what it
\* held before the write until the rename and the complete new content from
\* the rename on; and a read of a document at any moment returns a whole
\* content.
C20_DocumentWholeOldOrNew ==
    /\ \A f \in WrittenFiles : IsWhole(disk[f])
    /\ wr # NoWrite => disk[wr.path] \in {wr.pre, Whole(wr.content)}
    /\ wpc \in {"write", "replace"} => disk[wr.path] = wr.pre
    /\ wpc = "replaced" => disk[wr.path] = Whole(wr.content)
    /\ IsWhole(seen)

\* C20 witness: the process was killed with the temp file written in full
\* and not yet renamed; the document holds its earlier content, which is not
\* the new one.
C20_Witness ==
    /\ wpc = "dead"
    /\ wr # NoWrite
    /\ IsWhole(tmpFiles[wr.tmp])
    /\ disk[wr.path] = wr.pre
    /\ wr.pre # Whole(wr.content)

(* ------------------------------ round trip ----------------------------- *)
\* C21: after update_file(name, X) for a name of the fixed set, _read_file
\* of that name returns X and every other document is as it was before the
\* write; update_file for a name outside the fixed set raises ValueError and
\* leaves every document as it was.
C21_ReadReturnsWhatWasWritten ==
    /\ lastWrite.raised = "none"
       => /\ lastWrite.filename \in FileNames
          /\ \A other \in FileNames \ {lastWrite.filename} :
                files[other] = lastWrite.before[other]
          /\ lastRead.filename = lastWrite.filename => lastRead.text = lastWrite.content
    /\ lastWrite.filename \notin FileNames \cup {""}
       => lastWrite.raised = "ValueError" /\ files = lastWrite.before

(* ---------------------------- message splitting ------------------------ *)
\* text is the chunks in their order with nothing but white space dropped
\* between them and after the last one
RECURSIVE Reconstructs(_, _)
Reconstructs(text, chunks) ==
    IF chunks = <<>> THEN str_lstrip(text) = <<>>
    ELSE LET chunk == Head(chunks)
         IN /\ Len(chunk) <= Len(text)
            /\ SubSeq(text, 1, Len(chunk)) = chunk
            /\ Reconstructs(str_lstrip(SubSeq(text, Len(chunk) + 1, Len(text))),
                            Tail(chunks))

\* C22: for every text longer than the limit, split_message returns chunks
\* that are each at most the limit long and each non-empty, and the text is
\* its chunks in order with only white space dropped where it was split.
C22_ChunksBoundedNonEmptyAndComplete ==
    (Len(smText) > MaxChunkLen /\ smChunks # <<>>)
    => /\ \A i \in DOMAIN smChunks :
             Len(smChunks[i]) <= MaxChunkLen /\ smChunks[i] # <<>>
       /\ Reconstructs(smText, smChunks)

(* ----------------- turn history across a threshold trigger ------------- *)
\* the step belongs to a detached consolidation: its task gets its first
\* run, it gets the lock after waiting, or its model call returns and it ends
DetachedStep ==
    \/ spawned' # spawned /\ Len(spawned') < Len(spawned)
    \/ Len(waiters') < Len(waiters) /\ Head(waiters)[1] = "detached"
    \/ synthLog'.task[1] = "detached"

\* C23: the threshold trigger sets the session's counter to 0 and leaves its
\* turns as they are; no step of the detached consolidation changes any
\* session; and a message handled afterwards, when the session has not
\* expired, adds its turn at the end of the same turns.
C23_TriggerKeepsTurnHistory ==
    [][/\ \A u \in Users :
             TriggerFor(u) => /\ sessions'[u].messages = sessions[u].messages
                              /\ sessions'[u].messages # <<>>
                              /\ sessions'[u].message_count = 0
       /\ DetachedStep => UNCHANGED sessions
       /\ \A u \in DOMAIN sessions :
             hpc[u] = "idle" /\ hpc'[u] = "chat_await"
             => sessions'[u].messages
                   = Append(sessions[u].messages,
                            [role |-> "user", content |-> <<"text", htext'[u]>>])]_vars

\* C23 witness: the first message set off the trigger and its consolidation
\* is still waiting for the model; the next message of the same user has
\* added its turn after the two turns that were there, under a counter that
\* started again from 0.
C23_Witness ==
    \E u \in DOMAIN sessions :
        /\ hpc[u] = "chat_await"
        /\ Len(sessions[u].messages) = 3
        /\ sessions[u].message_count = 1
        /\ \E i \in DOMAIN running :
              running[i].task[1] = "detached" /\ running[i].task[2] = u

(* --------------------------- the daily maximum ------------------------- *)
\* C24: no step leaves the stored count of proactive sends for the current
\* UTC date above max_proactive_messages_per_day: starting within the
\* maximum, the count for today stays within it in every reachable state.
C24_CountNeverAboveDailyMax ==
    [][(/\ proactive_messages_date' = DateOf(now')
        /\ proactive_messages_today' > max_proactive_messages_per_day)
       => UNCHANGED <<proactive_messages_today, proactive_messages_date>>]_vars

(* ------------------- cooldown across the composition call -------------- *)
\* C25: in the step in which the composition call returns and the cycle
\* issues its first send, at least the cooldown has passed since the last
\* reply or proactive send, whatever was handled while the cycle awaited
\* the call.
C25_FirstDeliveryOutsideCooldown ==
    [][(apc = "compose_await" /\ apc' = "deliver")
       => \/ last_message_time = None
          \/ MinutesSinceLastMessage >= proactive_cooldown_hours * 60]_vars

(* ------------- what a detached consolidation gets to read -------------- *)
\* the two lines of the message whose handling set off the trigger: the
\* last turns the session held when the trigger fired
TriggerLines(m) == {<<"User", <<"text", m>>>>, <<"Claude", <<"response", m>>>>}

\* C26: the conversation text a detached consolidation hands to the model
\* holds the turns the session held when its trigger fired, and so the user
\* turn and the reply of the message that set it off, whatever ran between
\* the trigger and the moment the task got the lock.
C26_DetachedTextHoldsTriggerTurns ==
    \A i \in DOMAIN running :
        running[i].task[1] = "detached"
        => TriggerLines(running[i].task[3]) \subseteq Range(running[i].text)


\* the updates of user u this step takes in: a text message or a /forget
UpdateFrom(u) ==
    \/ budget'.msgs[u] < budget.msgs[u]
    \/ budget'.forgets[u] < budget.forgets[u]

\* C27: with a non-empty list of authorized recipients, a text message or a
\* /forget from a user id outside the list changes nothing: no session exists
\* for that id afterwards, no handler position, lock, task or model call
\* changes, no document or journal line is written, no reply is sent and
\* OutreachState is unchanged.
C27_OutsiderChangesNothing ==
    [][\A u \in Users :
          (allowed_user_ids # <<>> /\ u \notin Range(allowed_user_ids) /\ UpdateFrom(u))
          => /\ u \notin DOMAIN sessions'
             /\ UNCHANGED <<now, ticks, threshold, docs, seededIdentity, journal,
                            sessionVars, lockVars, synthLog, aLog, autoVars,
                            outreachVars, writeVars>>]_vars

\* C27 witness: the user outside the list has sent every text message and
\* /forget of the run while the user inside it has a session with turns and
\* a consolidation has been started.
C27_Witness ==
    /\ allowed_user_ids # <<>>
    /\ 3 \notin Range(allowed_user_ids)
    /\ budget.msgs[3] < MaxStrangerMsgs
    /\ budget.forgets[3] < MaxStrangerForgets
    /\ 2 \in DOMAIN sessions
    /\ sessions[2].messages # <<>>
    /\ running # <<>>

====
